---- MODULE Spec2Model ----
(***************************************************************************)
(* The resilient client layer of the LinkedIn Campaign Manager MCP server: *)
(* the error classes and transformError (errors.ts), and the verbs of      *)
(* LinkedInClient with executeWithRetry (client.ts).                       *)
(*                                                                         *)
(* A JavaScript value that can be thrown or caught is a record: its class  *)
(* (cls) and, for an object, its identity (ref: two objects are the same   *)
(* object iff their refs are equal) and the properties the code reads.     *)
(* undefined, NaN and numbers are tagged records so that they can be       *)
(* compared; an absent string property is the value Missing.               *)
(***************************************************************************)
EXTENDS Integers, Sequences, FiniteSets, TLC

\* ---------------------------------------------------------------- bounds

\* Verb calls that may run concurrently on one client.
NumCalls == 2

\* Longest retry-after header value, in characters.
MaxHdrLen == 2

\* ------------------------------------------------------ program constants

\* executeWithRetry(operation, maxRetries = 3)
DefaultMaxRetries == 3

\* error.response?.status ?? 500
DefaultStatus == 500

\* lastError.retryAfter * 1000, Math.pow(2, attempt) * 1000
MsPerSecond == 1000

\* Math.pow(2, attempt)
BackoffBase == 2

\* parseInt(retryAfter, 10)
Radix == 10

\* ----------------------------------------------------------- JS values

\* A number-or-undefined: undefined, NaN, or a number n.
Undefined == [t |-> "undefined"]

NaN == [t |-> "NaN"]

Num(n) == [t |-> "number", v |-> n]

\* JavaScript truthiness of a number-or-undefined: undefined, NaN and 0 are falsy.
TruthyNum(x) == x.t = "number" /\ x.v # 0

\* An absent (undefined) string property.
Missing == "<undefined>"

\* a ?? b on strings
Coalesce(a, b) == IF a = Missing THEN b ELSE a

\* The primitives null and undefined, and a primitive string.
Null == [cls |-> "null"]

UndefinedValue == [cls |-> "undefined"]

StringValue(s) == [cls |-> "string", str |-> s]

\* The header retry-after: absent, or a string (a sequence of characters).
NoHeader == [present |-> FALSE]

Hdr(s) == [present |-> TRUE, chars |-> s]

\* JavaScript truthiness of a header value: undefined and "" are falsy.
TruthyHdr(h) == h.present /\ Len(h.chars) > 0

\* response.data: absent, or a body with optional message and code.
NoData == [present |-> FALSE]

Data(m, k) == [present |-> TRUE, message |-> m, code |-> k]

\* error.response: absent, or { status?, data?, headers? }.
NoResponse == [present |-> FALSE]

Response(s, d, h) == [present |-> TRUE, status |-> s, data |-> d, retryAfter |-> h]

\* The identity of an object not yet placed in a run.
NoRef == <<0, 0>>

\* An object with none of the properties the code reads: its class, its
\* identity (none yet) and every property undefined.
Blank ==
  [ref |-> NoRef, cls |-> "Object", message |-> Missing, response |-> NoResponse,
   statusCode |-> Undefined, errorCode |-> Missing, retryAfter |-> Undefined,
   field |-> Missing, details |-> NoData]

\* ------------------------------------------------------- error classes

\* new Error(message)
NewError(message, ref) ==
  [Blank EXCEPT !.ref = ref, !.cls = "Error", !.message = message]

\* new LinkedInApiError(message, statusCode, errorCode?, details?)
LinkedInApiError(message, statusCode, errorCode, details, ref) ==
  [Blank EXCEPT !.ref = ref, !.cls = "LinkedInApiError", !.message = message,
                !.statusCode = statusCode, !.errorCode = errorCode,
                !.details = details]

\* new AuthenticationError(message, details?)
AuthenticationError(message, details, ref) ==
  [LinkedInApiError(message, Num(401), "AUTHENTICATION_ERROR", details, ref)
     EXCEPT !.cls = "AuthenticationError"]

\* new PermissionError(message, details?)
PermissionError(message, details, ref) ==
  [LinkedInApiError(message, Num(403), "PERMISSION_ERROR", details, ref)
     EXCEPT !.cls = "PermissionError"]

\* new RateLimitError(message, retryAfter?, details?)
RateLimitError(message, retryAfter, details, ref) ==
  [LinkedInApiError(message, Num(429), "RATE_LIMIT_ERROR", details, ref)
     EXCEPT !.cls = "RateLimitError", !.retryAfter = retryAfter]

\* new ValidationError(message, field?, details?)
ValidationError(message, field, details, ref) ==
  [Blank EXCEPT !.ref = ref, !.cls = "ValidationError", !.message = message,
                !.field = field, !.details = details]

\* error instanceof LinkedInApiError (the base class or a subclass)
InstanceOfLinkedInApiError(e) ==
  e.cls \in {"LinkedInApiError", "AuthenticationError", "PermissionError",
             "RateLimitError"}

\* error instanceof RateLimitError
InstanceOfRateLimitError(e) == e.cls = "RateLimitError"

\* error instanceof ValidationError
InstanceOfValidationError(e) == e.cls = "ValidationError"

\* error instanceof Error: every class above extends Error.
InstanceOfError(e) ==
  e.cls = "Error" \/ InstanceOfLinkedInApiError(e) \/ InstanceOfValidationError(e)

\* typeof error === 'object' && error !== null
IsObject(e) == e.cls = "Object" \/ InstanceOfError(e)

\* 'message' in error.  Error.prototype.message exists, so the property is
\* in every Error instance, whether or not the instance sets it.
HasMessageKey(e) == IsObject(e) /\ (InstanceOfError(e) \/ e.message # Missing)

\* 'response' in error
HasResponseKey(e) == IsObject(e) /\ e.response.present

\* error.response?.status
ResponseStatus(e) == IF e.response.present THEN e.response.status ELSE Undefined

\* error.response?.data
ResponseData(e) == IF e.response.present THEN e.response.data ELSE NoData

\* error.response?.headers?.['retry-after']
ResponseRetryAfter(e) == IF e.response.present THEN e.response.retryAfter ELSE NoHeader

\* data?.message
DataMessage(d) == IF d.present THEN d.message ELSE Missing

\* data?.code
DataCode(d) == IF d.present THEN d.code ELSE Missing

\* String(error)
StringOf(e) ==
  CASE e.cls = "string" -> e.str
    [] e.cls = "null" -> "null"
    [] e.cls = "undefined" -> "undefined"
    [] e.cls = "Object" -> "[object Object]"
    [] OTHER -> e.message

\* ------------------------------------------------------------- parseInt

Digits == {"0", "1", "2", "3", "4", "5", "6", "7", "8", "9"}

DigitValue(ch) ==
  CASE ch = "0" -> 0 [] ch = "1" -> 1 [] ch = "2" -> 2 [] ch = "3" -> 3
    [] ch = "4" -> 4 [] ch = "5" -> 5 [] ch = "6" -> 6 [] ch = "7" -> 7
    [] ch = "8" -> 8 [] ch = "9" -> 9

WhiteSpace == {" "}

RECURSIVE SkipWhiteSpace(_)
SkipWhiteSpace(s) ==
  IF s # <<>> /\ Head(s) \in WhiteSpace THEN SkipWhiteSpace(Tail(s)) ELSE s

\* The longest prefix of s made of digits.
RECURSIVE DigitPrefix(_)
DigitPrefix(s) ==
  IF s # <<>> /\ Head(s) \in Digits THEN <<Head(s)>> \o DigitPrefix(Tail(s)) ELSE <<>>

RECURSIVE DigitsValue(_, _)
DigitsValue(ds, acc) ==
  IF ds = <<>> THEN acc ELSE DigitsValue(Tail(ds), acc * Radix + DigitValue(Head(ds)))

\* parseInt(string, 10): leading white space is skipped, one sign is read,
\* then the longest run of digits; no digit at all gives NaN.
parseInt(s) ==
  LET t == SkipWhiteSpace(s)
      signed == t # <<>> /\ Head(t) \in {"-", "+"}
      sign == IF t # <<>> /\ Head(t) = "-" THEN -1 ELSE 1
      ds == DigitPrefix(IF signed THEN Tail(t) ELSE t)
  IN IF ds = <<>> THEN NaN ELSE Num(sign * DigitsValue(ds, 0))

\* retryAfter ? parseInt(retryAfter as string, 10) : undefined
RetryAfterOf(h) == IF TruthyHdr(h) THEN parseInt(h.chars) ELSE Undefined

\* ------------------------------------------------------- transformError

\* Type guard for axios-style errors.
isAxiosError(e) == IsObject(e) /\ (HasResponseKey(e) \/ HasMessageKey(e))

\* TransformAxios with the status lost in the default case: every other
\* status becomes 500.
TransformAxiosDefaultStatus(e, fresh) ==
  LET status == IF ResponseStatus(e) = Undefined THEN Num(DefaultStatus)
                ELSE ResponseStatus(e)
      data == ResponseData(e)
      message == Coalesce(DataMessage(data), Coalesce(e.message, "Unknown API error"))
  IN CASE status = Num(401) -> AuthenticationError(message, data, fresh)
       [] status = Num(403) -> PermissionError(message, data, fresh)
       [] status = Num(429) ->
            RateLimitError(message, RetryAfterOf(ResponseRetryAfter(e)), data, fresh)
       [] OTHER ->
            LinkedInApiError(message, Num(DefaultStatus), DataCode(data), data, fresh)

\* The branch of transformError for axios-style errors.
TransformAxios(e, fresh) ==
  LET status == IF ResponseStatus(e) = Undefined THEN Num(DefaultStatus)
                ELSE ResponseStatus(e)
      data == ResponseData(e)
      message == Coalesce(DataMessage(data), Coalesce(e.message, "Unknown API error"))
  IN CASE status = Num(401) -> AuthenticationError(message, data, fresh)
       [] status = Num(403) -> PermissionError(message, data, fresh)
       [] status = Num(429) ->
            RateLimitError(message, RetryAfterOf(ResponseRetryAfter(e)), data, fresh)
       [] OTHER -> LinkedInApiError(message, status, DataCode(data), data, fresh)

\* transformError without its first test: an instance of LinkedInApiError is
\* handled as an axios-style error and wrapped again.
transformErrorRewrapped(e, fresh) ==
  IF InstanceOfValidationError(e) THEN e
  ELSE IF InstanceOfError(e) /\ ~isAxiosError(e) THEN e
  ELSE IF isAxiosError(e) THEN TransformAxios(e, fresh)
  ELSE NewError(StringOf(e), fresh)

\* transformError without its last wrapping: a value of no recognizable
\* shape is returned as it is.
transformErrorUnwrapped(e, fresh) ==
  IF InstanceOfLinkedInApiError(e) THEN e
  ELSE IF InstanceOfValidationError(e) THEN e
  ELSE IF InstanceOfError(e) /\ ~isAxiosError(e) THEN e
  ELSE IF isAxiosError(e) THEN TransformAxios(e, fresh)
  ELSE e

\* transformError(error); fresh is the identity of the object it creates,
\* when it creates one.
transformError(e, fresh) ==
  IF InstanceOfLinkedInApiError(e) THEN e
  ELSE IF InstanceOfValidationError(e) THEN e
  ELSE IF InstanceOfError(e) /\ ~isAxiosError(e) THEN e
  ELSE IF isAxiosError(e) THEN TransformAxios(e, fresh)
  ELSE NewError(StringOf(e), fresh)

\* ------------------------------------------------- inputs of the model

RECURSIVE SeqsUpTo(_, _)
SeqsUpTo(S, n) ==
  IF n = 0 THEN {<<>>}
  ELSE LET P == SeqsUpTo(S, n - 1) IN P \cup {Append(s, x) : s \in P, x \in S}

\* Characters a retry-after header value is made of here: digits, a letter
\* (as in an HTTP date), a sign and a blank.
HdrChars == {"0", "1", "3", "x", "-", " "}

HeaderValues(n) == {NoHeader} \cup {Hdr(s) : s \in SeqsUpTo(HdrChars, n)}

StatusCodes == {400, 401, 403, 404, 429, 500}

Bodies ==
  {NoData} \cup {Data(m, k) : m \in {Missing, "", "Rate limited"},
                              k \in {Missing, "INTERNAL_ERROR"}}

Responses ==
  {NoResponse} \cup
  {Response(s, d, h) : s \in {Undefined} \cup {Num(n) : n \in StatusCodes},
                       d \in Bodies, h \in HeaderValues(MaxHdrLen)}

\* A plain object, such as the mocks of the tests reject with.
PlainObject(message, response) ==
  [Blank EXCEPT !.cls = "Object", !.message = message, !.response = response]

\* An instance of Error that is none of this program's classes (an
\* AxiosError, a TypeError): it always has a message, possibly the empty one.
StandardError(message, response) ==
  [Blank EXCEPT !.cls = "Error", !.message = message, !.response = response]

\* Failures as the transport raises them: not yet classified.
RawFailures ==
  {PlainObject(m, r) : m \in {Missing, "Network Error"}, r \in Responses}
  \cup {StandardError(m, r) : m \in {"", "Network Error"}, r \in Responses}
  \cup {StringValue("string error"), Null, UndefinedValue}

\* Instances of this program's error classes.
ClassifiedErrors ==
  {LinkedInApiError("Original", Num(s), k, NoData, NoRef) :
     s \in {400, 429}, k \in {Missing, "INTERNAL_ERROR"}}
  \cup {AuthenticationError("Invalid token", NoData, NoRef),
        PermissionError("Insufficient permissions", NoData, NoRef)}
  \cup {RateLimitError("Too many requests", ra, NoData, NoRef) :
          ra \in {Undefined, Num(0), Num(30)}}
  \cup {ValidationError("Bad input", f, NoData, NoRef) : f \in {Missing, "field"}}

\* An object gets an identity; a primitive has none.
WithRef(e, ref) == IF IsObject(e) THEN [e EXCEPT !.ref = ref] ELSE e

Calls == 1 .. NumCalls

Verbs == {"finder", "get", "getAll", "create", "update", "partialUpdate", "delete"}

\* Verbs whose operation returns response.data; the others return nothing.
ReturningVerbs == {"finder", "get", "getAll", "create"}

\* response.data of a successful remote call.
RemoteData == {"data A", "data B"}

Void == "undefined"

\* What the remote client raises in the runs of the verbs: every status
\* with a body, a 429 with every short retry-after header, a response
\* without status, failures without response, and values of no shape.
RemoteFailures ==
  {PlainObject(Missing, Response(Num(s), Data("Bad request", Missing), NoHeader)) :
     s \in StatusCodes \ {429}}
  \cup {PlainObject(Missing, Response(Num(429), Data("Rate limited", Missing), h)) :
          h \in HeaderValues(1)}
  \cup {PlainObject(Missing, Response(Undefined, NoData, NoHeader)),
        PlainObject("Network Error", NoResponse),
        StandardError("socket hang up", NoResponse),
        StringValue("string error"),
        PlainObject(Missing, NoResponse)}

\* ------------------------------------------------------ the wire requests

\* The Config objects a client can be constructed from.
Configs ==
  [accessToken : {"test-token", "other-token"}, apiVersion : {"202601", "202502"}]

\* new LinkedInClient(config): the two fields are copied from the config.
NewClient(config) ==
  [accessToken |-> config.accessToken, apiVersion |-> config.apiVersion]

\* queryParams given as {} and as a map with one entry.
EmptyMap == [k \in {} |-> ""]

TestQuery == [q |-> "test"]

\* An entity to create or replace, and a patch set.
Entity == [name |-> "Test Campaign"]

PatchSet == [status |-> "PAUSED"]

ResourcePaths == {"/campaigns", "/adAccounts"}

Ids == {"123", "456"}

\* The argument lists a verb can be called with; an omitted queryParams is
\* undefined.
ArgsOf(v) ==
  CASE v = "finder" ->
         [resourcePath : ResourcePaths, finderName : {"search"},
          queryParams : {UndefinedValue, EmptyMap, TestQuery}]
    [] v \in {"get", "delete"} -> [resourcePath : ResourcePaths, id : Ids]
    [] v = "getAll" -> [resourcePath : ResourcePaths]
    [] v = "create" -> [resourcePath : ResourcePaths, entity : {Entity}]
    [] v = "update" -> [resourcePath : ResourcePaths, id : Ids, entity : {Entity}]
    [] v = "partialUpdate" ->
         [resourcePath : ResourcePaths, id : Ids, patchSet : {PatchSet}]

\* The argument list each verb is called with where the arguments do not
\* matter.
PlainArgs(v) ==
  CASE v = "finder" ->
         [resourcePath |-> "/campaigns", finderName |-> "search",
          queryParams |-> UndefinedValue]
    [] v \in {"get", "delete"} -> [resourcePath |-> "/campaigns", id |-> "123"]
    [] v = "getAll" -> [resourcePath |-> "/campaigns"]
    [] v = "create" -> [resourcePath |-> "/campaigns", entity |-> Entity]
    [] v = "update" -> [resourcePath |-> "/campaigns", id |-> "123", entity |-> Entity]
    [] v = "partialUpdate" ->
         [resourcePath |-> "/campaigns", id |-> "123", patchSet |-> PatchSet]

\* queryParams ?? {}
QueryParamsOrEmpty(q) == IF q \in {UndefinedValue, Null} THEN EmptyMap ELSE q

\* ItemPath without the identifier.
ItemPathNoId(resourcePath, id) == resourcePath

\* `${resourcePath}/${id}`
ItemPath(resourcePath, id) == resourcePath \o "/" \o id

\* The protocol version the configuration defaults to.
DefaultApiVersion == "202601"

\* Credentials with the version not taken from the client.
CredentialsDefaultVersion(cl) ==
  [accessToken |-> cl.accessToken, versionString |-> DefaultApiVersion]

\* accessToken: this.accessToken, versionString: this.apiVersion
Credentials(cl) == [accessToken |-> cl.accessToken, versionString |-> cl.apiVersion]

\* The request a verb hands to the method of RestliClient of the same name:
\* the method and the object literal passed to it.
Request(v, a, cl) ==
  LET cr == Credentials(cl)
  IN CASE v = "finder" ->
            [method |-> v,
             params |-> [resourcePath |-> a.resourcePath,
                         finderName |-> a.finderName,
                         queryParams |-> QueryParamsOrEmpty(a.queryParams),
                         accessToken |-> cr.accessToken,
                         versionString |-> cr.versionString]]
       [] v \in {"get", "delete"} ->
            [method |-> v,
             params |-> [resourcePath |-> ItemPath(a.resourcePath, a.id),
                         accessToken |-> cr.accessToken,
                         versionString |-> cr.versionString]]
       [] v = "getAll" ->
            [method |-> v,
             params |-> [resourcePath |-> a.resourcePath,
                         accessToken |-> cr.accessToken,
                         versionString |-> cr.versionString]]
       [] v = "create" ->
            [method |-> v,
             params |-> [resourcePath |-> a.resourcePath,
                         entity |-> a.entity,
                         accessToken |-> cr.accessToken,
                         versionString |-> cr.versionString]]
       [] v = "update" ->
            [method |-> v,
             params |-> [resourcePath |-> ItemPath(a.resourcePath, a.id),
                         entity |-> a.entity,
                         accessToken |-> cr.accessToken,
                         versionString |-> cr.versionString]]
       [] v = "partialUpdate" ->
            [method |-> v,
             params |-> [resourcePath |-> ItemPath(a.resourcePath, a.id),
                         patchSetEntity |-> a.patchSet,
                         accessToken |-> cr.accessToken,
                         versionString |-> cr.versionString]]

\* sleep with the timeout dropped: a promise that resolves at once.
sleepNoTimeout(ms) == [armed |-> TRUE, ms |-> 0]

\* sleep with the timer never set: a promise that is never resolved.
sleepNeverResolved(ms) == [armed |-> FALSE, ms |-> ms]

\* sleep(ms): a promise resolved by a timer of ms milliseconds.
sleep(ms) == [armed |-> TRUE, ms |-> ms]

NoTimer == [armed |-> FALSE]

\* ----------------------------------------------------------------- state

VARIABLES
  phase,        \* the classifier on its own: "off", "input", "classified", "again"
  input,        \* the value handed to transformError
  output,       \* transformError(input)
  again,        \* transformError(output)
  pc,           \* per call: "unused", "idle", "inflight", "sleeping", "resolved", "rejected"
  verb,         \* per call: the verb called
  attempt,      \* per call: the loop variable of executeWithRetry
  lastError,    \* per call: the variable lastError
  caught,       \* per call: the value caught by the current catch block
  waitTime,     \* per call: the delay being slept, in ms
  result,       \* per call: the value the call resolved with
  invocations,  \* per call: how often the remote operation was invoked
  response,     \* per call: response.data of the attempt that succeeded
  log,          \* per call: one entry per failed attempt
  allocs,       \* per call: objects created so far
  client,       \* the fields accessToken and apiVersion of the LinkedInClient
  args,         \* per call: the arguments the verb was called with
  requests,     \* per call: the requests handed to RestliClient, in order
  events,       \* per call: requests, remote results, sleeps and wake-ups, in order
  timer,        \* per call: the timer of the sleep in progress
  applied,      \* per call: how often the remote service carried the request out
  handler,      \* one invocation of a tool handler: its position, input and outcome
  server        \* the process of index.ts: its environment, configuration and registered tools

classifierVars == <<phase, input, output, again>>

callVars ==
  <<pc, verb, attempt, lastError, caught, waitTime, result, invocations, response,
    log, allocs>>

wireVars == <<args, requests, events, timer, applied>>

vars == <<classifierVars, callVars, client, wireVars, handler, server>>

\* ------------------------------------------------- the classifier alone

ClassifierInputs ==
  {WithRef(e, <<0, 1>>) : e \in RawFailures \cup ClassifiedErrors}

\* No value yet: what a handler holds before a verb has resolved or the
\* handler has returned.
NoValue == [none |-> TRUE]

\* No tool handler has been invoked.
HandlerOff ==
  [pc |-> "off", tool |-> "none", input |-> NoValue, calls |-> <<>>,
   settled |-> <<>>, mutations |-> <<>>, tz |-> 0, fetched |-> NoValue, error |-> Null, origin |-> "none", result |-> NoValue]

\* The process has not been started.
ServerOff ==
  [pc |-> "off", env |-> NoValue, config |-> NoValue, linkedInClient |-> NoValue,
   tools |-> <<>>, error |-> Null, reply |-> NoValue]

ClassifierIdle ==
  /\ handler = HandlerOff
  /\ server = ServerOff
  /\ phase = "off"
  /\ input = Null
  /\ output = Null
  /\ again = Null

CallsUnused ==
  /\ pc = [c \in Calls |-> "unused"]
  /\ verb = [c \in Calls |-> "none"]
  /\ attempt = [c \in Calls |-> 0]
  /\ lastError = [c \in Calls |-> Null]
  /\ caught = [c \in Calls |-> Null]
  /\ waitTime = [c \in Calls |-> 0]
  /\ result = [c \in Calls |-> Void]
  /\ invocations = [c \in Calls |-> 0]
  /\ response = [c \in Calls |-> Void]
  /\ log = [c \in Calls |-> <<>>]
  /\ allocs = [c \in Calls |-> 0]
  /\ args = [c \in Calls |-> Null]
  /\ requests = [c \in Calls |-> <<>>]
  /\ events = [c \in Calls |-> <<>>]
  /\ timer = [c \in Calls |-> NoTimer]
  /\ applied = [c \in Calls |-> 0]

\* The configuration of the unit tests of the client.
TestConfig == [accessToken |-> "test-token", apiVersion |-> "202601"]

InitClassify ==
  /\ handler = HandlerOff
  /\ server = ServerOff
  /\ phase = "input"
  /\ input \in ClassifierInputs
  /\ output = Null
  /\ again = Null
  /\ CallsUnused
  /\ client = NewClient(TestConfig)

\* transformError(input)
Classify ==
  /\ phase = "input"
  /\ output' = transformError(input, <<0, 2>>)
  /\ phase' = "classified"
  /\ UNCHANGED <<input, again, callVars, client, wireVars, handler, server>>

\* transformError(transformError(input))
Reclassify ==
  /\ phase = "classified"
  /\ again' = transformError(output, <<0, 3>>)
  /\ phase' = "again"
  /\ UNCHANGED <<input, output, callVars, client, wireVars, handler, server>>

NextClassify == Classify \/ Reclassify

SpecClassify == InitClassify /\ [][NextClassify]_vars

\* ------------------------------------------------------ executeWithRetry

\* ShouldRetry with the bound off by one: attempt <= maxRetries.
ShouldRetryInclusive(err, att) ==
  InstanceOfRateLimitError(err) /\ att <= DefaultMaxRetries

\* ShouldRetry testing the base class: lastError instanceof LinkedInApiError.
ShouldRetryAnyApiError(err, att) ==
  InstanceOfLinkedInApiError(err) /\ att < DefaultMaxRetries

\* lastError instanceof RateLimitError && attempt < maxRetries
ShouldRetry(err, att) == InstanceOfRateLimitError(err) /\ att < DefaultMaxRetries

\* WaitTime with a linear backoff: (attempt + 1) * 1000.
WaitTimeLinear(err, att) ==
  IF TruthyNum(err.retryAfter) THEN err.retryAfter.v * MsPerSecond
  ELSE (att + 1) * MsPerSecond

\* lastError.retryAfter ? lastError.retryAfter * 1000 : Math.pow(2, attempt) * 1000
WaitTime(err, att) ==
  IF TruthyNum(err.retryAfter) THEN err.retryAfter.v * MsPerSecond
  ELSE (BackoffBase ^ att) * MsPerSecond

\* OperationResult with the return statement missing.
OperationResultDropped(v, data) == Void

\* What the operation of a verb returns from a successful remote call.
OperationResult(v, data) == IF v \in ReturningVerbs THEN data ELSE Void

\* The loop variable of a call starting where the call before it stands.
FirstAttemptCarried(c) == IF c > 1 THEN attempt[c - 1] ELSE 0

\* let attempt = 0
FirstAttempt(c) == 0

\* The verbs that change the remote state.
MutatingVerbs == {"create", "update", "partialUpdate", "delete"}

\* How often the remote service can have carried out a request that it
\* answers with failure f: never when the answer is a 429 response.
AppliedWith(f) ==
  IF IsObject(f) /\ ResponseStatus(f) = Num(429) THEN {0} ELSE {0, 1}

\* A verb is called: executeWithRetry runs to the first await, with the
\* remote operation invoked for the first attempt.
Start(c, v, a) ==
  /\ pc[c] = "idle"
  /\ pc' = [pc EXCEPT ![c] = "inflight"]
  /\ verb' = [verb EXCEPT ![c] = v]
  /\ args' = [args EXCEPT ![c] = a]
  /\ attempt' = [attempt EXCEPT ![c] = FirstAttempt(c)]
  /\ lastError' = [lastError EXCEPT ![c] = Null]
  /\ invocations' = [invocations EXCEPT ![c] = 1]
  /\ requests' = [requests EXCEPT ![c] = <<Request(v, a, client)>>]
  /\ events' = [events EXCEPT ![c] = <<<<"request", FirstAttempt(c)>>>>]
  /\ UNCHANGED <<caught, waitTime, result, response, log, allocs, timer, applied,
                 client, classifierVars, handler, server>>

\* The awaited remote call returns: return await operation().
AttemptSucceeds(c, data) ==
  /\ pc[c] = "inflight"
  /\ pc' = [pc EXCEPT ![c] = "resolved"]
  /\ response' = [response EXCEPT ![c] = data]
  /\ result' = [result EXCEPT ![c] = OperationResult(verb[c], data)]
  /\ events' = [events EXCEPT ![c] = Append(events[c], <<"ok", data>>)]
  /\ applied' = [applied EXCEPT ![c] = applied[c] + 1]
  /\ UNCHANGED <<verb, attempt, lastError, caught, waitTime, invocations, log, allocs,
                 args, requests, timer, client, classifierVars, handler, server>>

\* The awaited remote call raises f, the remote service having carried the
\* request out ap times: the catch block classifies f, then either starts
\* the sleep before the next attempt or throws.
AttemptFails(c, f, ap) ==
  LET raw == WithRef(f, <<c, allocs[c] + 1>>)
      err == transformError(raw, <<c, allocs[c] + 2>>)
      retry == ShouldRetry(err, attempt[c])
      wait == WaitTime(err, attempt[c])
  IN /\ pc[c] = "inflight"
     /\ ap \in AppliedWith(f)
     /\ caught' = [caught EXCEPT ![c] = raw]
     /\ lastError' = [lastError EXCEPT ![c] = err]
     /\ allocs' = [allocs EXCEPT ![c] = allocs[c] + 2]
     /\ pc' = [pc EXCEPT ![c] = IF retry THEN "sleeping" ELSE "rejected"]
     /\ waitTime' = [waitTime EXCEPT ![c] = IF retry THEN wait ELSE waitTime[c]]
     /\ timer' = [timer EXCEPT ![c] = IF retry THEN sleep(wait) ELSE timer[c]]
     /\ log' = [log EXCEPT ![c] =
                  Append(log[c], [cls |-> err.cls,
                                  retryAfter |-> IF InstanceOfRateLimitError(err)
                                                 THEN err.retryAfter ELSE Undefined,
                                  delay |-> IF retry THEN Num(wait) ELSE Undefined])]
     /\ events' = [events EXCEPT ![c] =
                     Append(events[c], <<"fail", f>>)
                     \o (IF retry THEN <<<<"sleep", wait>>>> ELSE <<>>)]
     /\ applied' = [applied EXCEPT ![c] = applied[c] + ap]
     /\ UNCHANGED <<verb, attempt, result, invocations, response, args, requests,
                    client, classifierVars, handler, server>>

\* The timer of sleep fires: continue, attempt++, and the loop either invokes
\* the operation again or ends and throws lastError ?? new Error(...).
SleepElapses(c) ==
  LET next == attempt[c] + 1
      again_ == next <= DefaultMaxRetries
  IN /\ pc[c] = "sleeping"
     /\ timer[c].armed
     /\ attempt' = [attempt EXCEPT ![c] = next]
     /\ caught' = [caught EXCEPT ![c] = Null]
     /\ pc' = [pc EXCEPT ![c] = IF again_ THEN "inflight" ELSE "rejected"]
     /\ invocations' = [invocations EXCEPT ![c] =
                          IF again_ THEN invocations[c] + 1 ELSE invocations[c]]
     /\ lastError' = [lastError EXCEPT ![c] =
                        IF ~again_ /\ lastError[c] = Null
                        THEN NewError("Unknown error during retry", <<c, allocs[c] + 1>>)
                        ELSE lastError[c]]
     /\ timer' = [timer EXCEPT ![c] = NoTimer]
     /\ requests' = [requests EXCEPT ![c] =
                       IF again_ THEN Append(requests[c], Request(verb[c], args[c], client))
                       ELSE requests[c]]
     /\ events' = [events EXCEPT ![c] =
                     Append(events[c], <<"wake", timer[c].ms>>)
                     \o (IF again_ THEN <<<<"request", next>>>> ELSE <<>>)]
     /\ UNCHANGED <<verb, waitTime, result, response, log, allocs, args, applied,
                    client, classifierVars, handler, server>>

\* One verb call on the client of the unit tests; the other calls are not
\* made.
Init ==
  /\ ClassifierIdle
  /\ client = NewClient(TestConfig)
  /\ pc = [c \in Calls |-> IF c = 1 THEN "idle" ELSE "unused"]
  /\ verb = [c \in Calls |-> "none"]
  /\ attempt = [c \in Calls |-> 0]
  /\ lastError = [c \in Calls |-> Null]
  /\ caught = [c \in Calls |-> Null]
  /\ waitTime = [c \in Calls |-> 0]
  /\ result = [c \in Calls |-> Void]
  /\ invocations = [c \in Calls |-> 0]
  /\ response = [c \in Calls |-> Void]
  /\ log = [c \in Calls |-> <<>>]
  /\ allocs = [c \in Calls |-> 0]
  /\ args = [c \in Calls |-> Null]
  /\ requests = [c \in Calls |-> <<>>]
  /\ events = [c \in Calls |-> <<>>]
  /\ timer = [c \in Calls |-> NoTimer]
  /\ applied = [c \in Calls |-> 0]

Next ==
  \E c \in Calls :
    \/ \E v \in Verbs : Start(c, v, PlainArgs(v))
    \/ \E d \in RemoteData : AttemptSucceeds(c, d)
    \/ \E f \in RemoteFailures : \E ap \in {0, 1} : AttemptFails(c, f, ap)
    \/ SleepElapses(c)

Spec == Init /\ [][Next]_vars

\* ------------------------------------------- every verb with its arguments

\* The failures of the unit tests of the retry logic, and two failures after
\* which the remote service may have carried the request out.
CommonFailures ==
  {PlainObject(Missing, Response(Num(429), Data("Rate limited", Missing), NoHeader)),
   PlainObject(Missing, Response(Num(429), Data("Rate limited", Missing), Hdr(<<"3">>))),
   PlainObject(Missing, Response(Num(401), Data("Unauthorized", Missing), NoHeader)),
   PlainObject(Missing, Response(Num(500), Data("Server error", Missing), NoHeader)),
   StandardError("socket hang up", NoResponse)}

\* A client constructed from any configuration; one verb call on it.
InitWire ==
  /\ ClassifierIdle
  /\ client \in {NewClient(cfg) : cfg \in Configs}
  /\ pc = [c \in Calls |-> IF c = 1 THEN "idle" ELSE "unused"]
  /\ verb = [c \in Calls |-> "none"]
  /\ attempt = [c \in Calls |-> 0]
  /\ lastError = [c \in Calls |-> Null]
  /\ caught = [c \in Calls |-> Null]
  /\ waitTime = [c \in Calls |-> 0]
  /\ result = [c \in Calls |-> Void]
  /\ invocations = [c \in Calls |-> 0]
  /\ response = [c \in Calls |-> Void]
  /\ log = [c \in Calls |-> <<>>]
  /\ allocs = [c \in Calls |-> 0]
  /\ args = [c \in Calls |-> Null]
  /\ requests = [c \in Calls |-> <<>>]
  /\ events = [c \in Calls |-> <<>>]
  /\ timer = [c \in Calls |-> NoTimer]
  /\ applied = [c \in Calls |-> 0]

NextWire ==
  \E c \in Calls :
    \/ \E v \in Verbs : \E a \in ArgsOf(v) : Start(c, v, a)
    \/ AttemptSucceeds(c, "data A")
    \/ \E f \in CommonFailures : \E ap \in {0, 1} : AttemptFails(c, f, ap)
    \/ SleepElapses(c)

SpecWire == InitWire /\ [][NextWire]_vars

\* ------------------------------------------------------ concurrent calls

\* What the remote client raises in the runs of concurrent calls.
ConcurrentFailures ==
  {PlainObject(Missing, Response(Num(429), Data("Rate limited", Missing), NoHeader)),
   PlainObject(Missing, Response(Num(401), Data("Unauthorized", Missing), NoHeader))}

ConcurrentVerbs == {"get", "delete"}

\* Every call can be made, in any order and at any time.
InitCalls ==
  /\ ClassifierIdle
  /\ client = NewClient(TestConfig)
  /\ pc = [c \in Calls |-> "idle"]
  /\ verb = [c \in Calls |-> "none"]
  /\ attempt = [c \in Calls |-> 0]
  /\ lastError = [c \in Calls |-> Null]
  /\ caught = [c \in Calls |-> Null]
  /\ waitTime = [c \in Calls |-> 0]
  /\ result = [c \in Calls |-> Void]
  /\ invocations = [c \in Calls |-> 0]
  /\ response = [c \in Calls |-> Void]
  /\ log = [c \in Calls |-> <<>>]
  /\ allocs = [c \in Calls |-> 0]
  /\ args = [c \in Calls |-> Null]
  /\ requests = [c \in Calls |-> <<>>]
  /\ events = [c \in Calls |-> <<>>]
  /\ timer = [c \in Calls |-> NoTimer]
  /\ applied = [c \in Calls |-> 0]

\* The remote call of c returns or raises.
RemoteAnswers(c) ==
  \/ AttemptSucceeds(c, "data A")
  \/ \E f \in ConcurrentFailures : AttemptFails(c, f, 0)

NextCalls ==
  \E c \in Calls :
    \/ \E v \in ConcurrentVerbs : Start(c, v, PlainArgs(v))
    \/ RemoteAnswers(c)
    \/ SleepElapses(c)

SpecCalls == InitCalls /\ [][NextCalls]_vars

\* Every remote call is answered and every timer fires.
SpecLive ==
  /\ SpecCalls
  /\ \A c \in Calls : WF_vars(RemoteAnswers(c)) /\ WF_vars(SleepElapses(c))

\* ------------------------------------------------------- tool handlers

\* buildUrn(type, id): `urn:li:${type}:${id}`, kept as its colon-separated
\* parts.
buildUrn(type, id) == <<"urn", "li", type, id>>

\* extractIdFromUrn(urn): the last of the colon-separated parts.
extractIdFromUrn(urn) == urn[Len(urn)]

DigitChar(d) ==
  CASE d = 0 -> "0" [] d = 1 -> "1" [] d = 2 -> "2" [] d = 3 -> "3" [] d = 4 -> "4"
    [] d = 5 -> "5" [] d = 6 -> "6" [] d = 7 -> "7" [] d = 8 -> "8" [] d = 9 -> "9"

\* amount.toString() of a positive integer
RECURSIVE NumberToString(_)
NumberToString(n) ==
  IF n < Radix THEN DigitChar(n) ELSE NumberToString(n \div Radix) \o DigitChar(n % Radix)

\* buildMoneyAmount(amount), currencyCode defaulting to 'USD'
buildMoneyAmount(amount) ==
  [amount |-> NumberToString(amount.v), currencyCode |-> "USD"]

\* The strings of the inputs that trim() empties.
BlankStrings == {"", " "}

\* s.trim()
Trim(s) == IF s \in BlankStrings THEN "" ELSE s

\* The strings z.string().url() accepts, among those of the inputs.
ValidUrls == {"https://example.com"}

CreativeType ==
  {"TEXT_AD", "SPONSORED_STATUS_UPDATE", "SPONSORED_VIDEO", "SPONSORED_MESSAGE",
   "CAROUSEL"}

ObjectiveType ==
  {"BRAND_AWARENESS", "WEBSITE_VISITS", "ENGAGEMENT", "VIDEO_VIEWS",
   "LEAD_GENERATION", "WEBSITE_CONVERSIONS", "JOB_APPLICANTS", "TALENT_LEADS"}

CostType == {"CPC", "CPM", "CPV"}

\* FACET_MAPPING
FACET_MAPPING ==
  [locations |-> "urn:li:adTargetingFacet:locations",
   industries |-> "urn:li:adTargetingFacet:industries",
   seniorities |-> "urn:li:adTargetingFacet:seniorities",
   jobFunctions |-> "urn:li:adTargetingFacet:jobFunctions",
   titles |-> "urn:li:adTargetingFacet:titles",
   skills |-> "urn:li:adTargetingFacet:skills",
   companies |-> "urn:li:adTargetingFacet:employers",
   schools |-> "urn:li:adTargetingFacet:schools"]

\* The facet enum of SearchTargetingEntitiesInputSchema.
FacetEnum ==
  {"locations", "industries", "seniorities", "jobFunctions", "titles", "skills",
   "companies", "schools"}

\* z.string()
IsString(x) == x # Missing

\* z.string().min(1).max(255), for the names of the inputs
IsName(x) == x # Missing /\ x # ""

\* z.number().positive()
IsPositive(n) == n.t = "number" /\ n.v > 0

\* z.number().positive().optional()
IsOptionalPositive(n) == n = Undefined \/ IsPositive(n)

\* z.number().min(0)
IsOffset(n) == n.t = "number" /\ n.v >= 0

\* z.number().min(1).max(100)
IsLimit(n) == n.t = "number" /\ n.v >= 1 /\ n.v <= 100

\* A YYYY-MM-DD string, kept as the three numbers it spells.
CalendarDate(y, m, d) == [year |-> y, month |-> m, day |-> d]

\* The dates of the inputs: first and last days of months and years, a
\* leap day and a day in mid-month.
CalendarDates ==
  {CalendarDate(2026, 1, 1), CalendarDate(2026, 1, 31), CalendarDate(2024, 2, 29),
   CalendarDate(2025, 12, 31), CalendarDate(2026, 6, 15)}

\* Offsets of local time from UTC, in minutes, of the zones a process can
\* run in: America/New_York in winter, UTC, Asia/Kolkata.
TimeZoneOffsets == {-300, 0, 330}

MinutesPerDay == 1440

\* Days from 1970-01-01 to a date of the proleptic Gregorian calendar, as
\* Date.parse counts them.
DaysFromCivil(date) ==
  LET y == IF date.month <= 2 THEN date.year - 1 ELSE date.year
      era == y \div 400
      yoe == y - era * 400
      mp == IF date.month > 2 THEN date.month - 3 ELSE date.month + 9
      doy == (153 * mp + 2) \div 5 + date.day - 1
      doe == yoe * 365 + yoe \div 4 - yoe \div 100 + doy
  IN era * 146097 + doe - 719468

\* The date of the proleptic Gregorian calendar a number of days after
\* 1970-01-01.
CivilFromDays(days) ==
  LET z == days + 719468
      era == z \div 146097
      doe == z - era * 146097
      yoe == (doe - doe \div 1460 + doe \div 36524 - doe \div 146096) \div 365
      doy == doe - (365 * yoe + yoe \div 4 - yoe \div 100)
      mp == (5 * doy + 2) \div 153
      d == doy - (153 * mp + 2) \div 5 + 1
      m == IF mp < 10 THEN mp + 3 ELSE mp - 9
      y == yoe + era * 400
  IN CalendarDate(IF m <= 2 THEN y + 1 ELSE y, m, d)

\* dateToEpochMs(dateStr): new Date(dateStr + 'T00:00:00Z').getTime().  The
\* instant is counted in minutes, the unit of the zone offsets.
dateToEpochMs(dateStr) == DaysFromCivil(dateStr) * MinutesPerDay

\* new Date(epoch).getDate(), .getMonth() + 1, .getFullYear(): the fields of
\* the instant in the local time of the process.
LocalDate(epoch, tz) == CivilFromDays((epoch + tz) \div MinutesPerDay)

Tools ==
  {"create_creative", "search_targeting_entities", "create_campaign",
   "update_campaign", "update_campaign_group", "update_creative", "get_organization",
   "delete_campaign", "create_post", "list_posts", "get_analytics"}

UpdateTools == {"update_campaign", "update_campaign_group", "update_creative"}

\* Schema.parse(input) succeeds.  Only the fields the inputs vary are
\* listed; the others are given and well-formed.
SchemaAccepts(t, p) ==
  CASE t = "create_creative" ->
         /\ IsString(p.accountId)
         /\ IsString(p.campaignId)
         /\ p.type \in CreativeType
         /\ IsString(p.text)
         /\ p.destinationUrl \in ValidUrls
    [] t = "search_targeting_entities" ->
         /\ p.facet \in FacetEnum
         /\ p.limit = Undefined \/ IsLimit(p.limit)
    [] t = "create_campaign" ->
         /\ IsString(p.accountId)
         /\ IsName(p.name)
         /\ p.objectiveType \in ObjectiveType
         /\ IsPositive(p.dailyBudget)
         /\ p.costType \in CostType
    [] t = "update_campaign" ->
         /\ IsString(p.accountId)
         /\ IsString(p.campaignId)
         /\ p.name = Missing \/ IsName(p.name)
         /\ p.status \in {Missing, "ACTIVE", "PAUSED", "ARCHIVED"}
         /\ IsOptionalPositive(p.dailyBudget)
    [] t = "update_campaign_group" ->
         /\ IsString(p.accountId)
         /\ IsString(p.groupId)
         /\ p.name = Missing \/ IsName(p.name)
         /\ p.status \in {Missing, "ACTIVE", "PAUSED", "ARCHIVED"}
         /\ IsOptionalPositive(p.totalBudget)
    [] t = "update_creative" ->
         /\ IsString(p.accountId)
         /\ IsString(p.creativeId)
         /\ p.status \in {Missing, "ACTIVE", "PAUSED"}
         /\ p.text = Missing \/ IsString(p.text)
         /\ p.destinationUrl \in {Missing} \cup ValidUrls
    [] t = "get_organization" -> IsString(p.organizationId)
    [] t = "delete_campaign" -> IsString(p.accountId) /\ IsString(p.campaignId)
    [] t = "create_post" -> IsString(p.organizationId) /\ IsName(p.text)
    [] t = "get_analytics" -> IsString(p.accountId)
    [] t = "list_posts" ->
         /\ IsString(p.organizationId)
         /\ p.count = Undefined \/ IsLimit(p.count)
         /\ p.start = Undefined \/ IsOffset(p.start)

\* The inputs a tool is called with.
ToolInputs(t) ==
  CASE t = "create_creative" ->
         [accountId : {Missing, "789"}, campaignId : {"456"},
          type : {"TEXT_AD", "SPONSORED_STATUS_UPDATE", "BANNER"},
          title : {Missing, " ", "Title"}, text : {"Body"},
          destinationUrl : {"https://example.com", "not-a-url"}]
    [] t = "search_targeting_entities" ->
         [facet : {"industries", "companies", "unknown"}, query : {Missing, "test"},
          limit : {Undefined, Num(50), Num(0)}]
    [] t = "create_campaign" ->
         [accountId : {"456"}, name : {"Test", ""},
          objectiveType : {"WEBSITE_VISITS", "INVALID_TYPE"},
          dailyBudget : {Num(50), Num(-50)}, costType : {"CPC"}]
    [] t = "update_campaign" ->
         [accountId : {"456"}, campaignId : {Missing, "123"},
          name : {Missing, "Updated Name"}, status : {Missing, "PAUSED", "DELETED"},
          dailyBudget : {Undefined, Num(200), Num(-1)}]
    [] t = "update_campaign_group" ->
         [accountId : {"456"}, groupId : {Missing, "9"},
          name : {Missing, "Updated Name"}, status : {Missing, "PAUSED"},
          totalBudget : {Undefined, Num(0), Num(500)}]
    [] t = "update_creative" ->
         [accountId : {Missing, "789"}, creativeId : {"11"},
          status : {Missing, "PAUSED", "ARCHIVED"},
          text : {Missing, "Updated ad copy"},
          destinationUrl : {Missing, "https://example.com", "not-a-url"}]
    [] t = "get_organization" -> [organizationId : {Missing, "789"}]
    [] t = "delete_campaign" -> [accountId : {"456"}, campaignId : {Missing, "123", "124"}]
    [] t = "create_post" ->
         [organizationId : {Missing, "789"}, text : {"", "Test"}, isDarkPost : BOOLEAN]
    [] t = "get_analytics" ->
         [accountId : {Missing, "456"}, startDate : CalendarDates, endDate : CalendarDates]
    [] t = "list_posts" ->
         [organizationId : {Missing, "789"}, count : {Undefined, Num(50), Num(0)},
          start : {Undefined, Num(10), Num(-1)}]

\* An absent URN, and the URN-less and well-formed entities a fetch or a
\* create returns.
NoUrn == <<>>

RawEntities ==
  {[id |-> u, name |-> n, status |-> "PAUSED"] :
     u \in {buildUrn("sponsoredCampaign", "123"), NoUrn},
     n \in {"Test", "Updated Name"}}

\* Responses of GET /organizations: localizedName a string, absent, or a
\* number.
OrgResponses ==
  {[localizedName |-> StringValue("Acme")], [localizedName |-> UndefinedValue],
   [localizedName |-> [cls |-> "number"]]}

\* Responses of POST /posts: the post URN under id, under x-restli-id,
\* under both or under neither.
PostCreated ==
  {[k \in {"id", "x-restli-id"} |-> IF k = "id" THEN i ELSE x] :
     i \in {NoUrn, buildUrn("share", "123456")}, x \in {NoUrn, buildUrn("share", "999")}}

\* Responses of the author finder of /posts: no elements field, no post,
\* one post, two posts.
PostLists ==
  LET RawPosts == {[id |-> u, commentary |-> "Post one"] :
                     u \in {buildUrn("share", "111"), NoUrn}}
  IN {[paging |-> "none"]}
     \cup {[elements |-> e] : e \in {<<>>} \cup {<<a>> : a \in RawPosts}
                                    \cup {<<a, b>> : a, b \in RawPosts}}

\* Responses of the analytics finder.
AnalyticsResponses ==
  {[elements |-> <<>>],
   [elements |-> <<[pivotValue |-> "urn:li:sponsoredCampaign:123", impressions |-> 1000,
                    clicks |-> 50]>>]}

FinderResponses ==
  {[elements |-> <<>>],
   [elements |-> <<[urn |-> "urn:li:industry:4", name |-> "Software"]>>]}

\* What a client verb can resolve with for the call made.
VerbValues(call) ==
  CASE call.verb \in {"partialUpdate", "delete"} -> {UndefinedValue}
    [] call.verb = "finder" /\ call.resourcePath = "/posts" -> PostLists
    [] call.verb = "finder" /\ call.resourcePath = "/adAnalytics" -> AnalyticsResponses
    [] call.verb = "finder" -> FinderResponses
    [] call.verb = "create" /\ call.resourcePath = "/posts" -> PostCreated
    [] call.verb = "get" /\ call.resourcePath = "/organizations" -> OrgResponses
    [] OTHER -> RawEntities

\* What a client verb can reject with: what executeWithRetry throws.
VerbErrors ==
  {AuthenticationError("Invalid token", NoData, <<0, 4>>),
   RateLimitError("Rate limited", Undefined, NoData, <<0, 4>>),
   LinkedInApiError("Server error", Num(500), Missing, NoData, <<0, 4>>)}

\* The error Schema.parse throws, and the TypeError of reading a property of
\* undefined.
ZodError == [Blank EXCEPT !.ref = <<0, 5>>, !.cls = "ZodError", !.message = "Invalid input"]

TypeError ==
  [Blank EXCEPT !.ref = <<0, 5>>, !.cls = "TypeError",
                !.message = "Cannot read properties of undefined"]

\* TitleMissing without the trim.
TitleMissingUntrimmed(p) == p.title = Missing

\* The business rule of createCreative fails:
\* params.title === undefined || params.title.trim() === ''
TitleMissing(p) == p.title = Missing \/ Trim(p.title) = ""

\* The error the handler throws on its own after parsing, or Null.
RuleError(t, p) ==
  CASE t = "create_creative" /\ p.type = "TEXT_AD" /\ TitleMissing(p) ->
         NewError("Title is required for TEXT_AD creatives", <<0, 5>>)
    [] t = "search_targeting_entities" /\ p.facet \notin DOMAIN FACET_MAPPING ->
         NewError("Unknown facet type", <<0, 5>>)
    [] OTHER -> Null

\* The patch set of an update handler: one key per update given.
PatchSetOf(t, p) ==
  LET budget == IF t = "update_campaign" THEN "dailyBudget" ELSE "totalBudget"
      keys ==
        IF t = "update_creative"
        THEN {k \in {"status"} : p.status # Missing}
             \cup {k \in {"variables.clickUri"} : p.destinationUrl # Missing}
        ELSE {k \in {"name"} : p.name # Missing}
             \cup {k \in {"status"} : p.status # Missing}
             \cup {k \in {budget} : p[budget] # Undefined}
  IN [k \in keys |->
        CASE k = "name" -> p.name
          [] k = "status" -> p.status
          [] k = "variables.clickUri" -> p.destinationUrl
          [] OTHER -> buildMoneyAmount(p[budget])]

\* The collection and the identifier an update handler addresses.
UpdateTarget(t, p) ==
  CASE t = "update_campaign" ->
         [resourcePath |-> "/adAccounts/" \o p.accountId \o "/adCampaigns",
          id |-> p.campaignId]
    [] t = "update_campaign_group" ->
         [resourcePath |-> "/adAccounts/" \o p.accountId \o "/adCampaignGroups",
          id |-> p.groupId]
    [] t = "update_creative" ->
         [resourcePath |-> "/adAccounts/" \o p.accountId \o "/creatives",
          id |-> p.creativeId]

\* UpdateCalls with the fetch before the partial update.
UpdateCallsFetchFirst(t, p) ==
  LET target == UpdateTarget(t, p)
  IN <<[verb |-> "get", resourcePath |-> target.resourcePath, id |-> target.id],
       [verb |-> "partialUpdate", resourcePath |-> target.resourcePath,
        id |-> target.id, patchSet |-> PatchSetOf(t, p)]>>

\* The client verbs an update handler awaits, in order:
\* client.partialUpdate(path, id, patchSet), then client.get(path, id).
UpdateCalls(t, p) ==
  LET target == UpdateTarget(t, p)
  IN <<[verb |-> "partialUpdate", resourcePath |-> target.resourcePath,
        id |-> target.id, patchSet |-> PatchSetOf(t, p)],
       [verb |-> "get", resourcePath |-> target.resourcePath, id |-> target.id]>>

\* DeleteCampaignCalls with the remote delete verb.
DeleteCampaignCallsHardDelete(p) ==
  <<[verb |-> "delete",
     resourcePath |-> "/adAccounts/" \o p.accountId \o "/adCampaigns",
     id |-> p.campaignId]>>

\* deleteCampaign: client.partialUpdate(path, campaignId, { status: 'ARCHIVED' })
DeleteCampaignCalls(p) ==
  <<[verb |-> "partialUpdate",
     resourcePath |-> "/adAccounts/" \o p.accountId \o "/adCampaigns",
     id |-> p.campaignId, patchSet |-> [status |-> "ARCHIVED"]]>>

\* The client verbs a handler awaits, in order, for a parsed input p.
VerbCalls(t, p) ==
  CASE t \in UpdateTools -> UpdateCalls(t, p)
    [] t = "delete_campaign" -> DeleteCampaignCalls(p)
    [] t = "create_creative" ->
         <<[verb |-> "create",
            resourcePath |-> "/adAccounts/" \o p.accountId \o "/creatives",
            entity |-> [campaign |-> buildUrn("sponsoredCampaign", p.campaignId),
                        status |-> "ACTIVE", type |-> p.type,
                        clickUri |-> p.destinationUrl,
                        title |-> IF p.type = "TEXT_AD" THEN p.title ELSE Missing,
                        text |-> p.text]]>>
    [] t = "create_campaign" ->
         <<[verb |-> "create",
            resourcePath |-> "/adAccounts/" \o p.accountId \o "/adCampaigns",
            entity |-> [account |-> buildUrn("sponsoredAccount", p.accountId),
                        name |-> p.name, objectiveType |-> p.objectiveType,
                        costType |-> p.costType,
                        dailyBudget |-> buildMoneyAmount(p.dailyBudget),
                        status |-> "DRAFT", type |-> "SPONSORED_UPDATES"]]>>
    [] t = "search_targeting_entities" ->
         <<[verb |-> "finder", resourcePath |-> "/adTargetingEntities",
            finderName |-> "adTargetingFacet",
            queryParams |-> [facet |-> FACET_MAPPING[p.facet],
                             queryVersion |-> "QUERY_USES_URNS",
                             count |-> IF p.limit = Undefined THEN Num(20) ELSE p.limit,
                             query |-> p.query]]>>
    [] t = "get_organization" ->
         <<[verb |-> "get", resourcePath |-> "/organizations", id |-> p.organizationId]>>
    [] t = "get_analytics" ->
         <<[verb |-> "finder", resourcePath |-> "/adAnalytics", finderName |-> "analytics",
            queryParams |->
              [dateRange |-> [start |-> LocalDate(dateToEpochMs(p.startDate), handler.tz),
                              end |-> LocalDate(dateToEpochMs(p.endDate), handler.tz)],
               pivot |-> "CAMPAIGN", timeGranularity |-> "ALL",
               accounts |-> <<buildUrn("sponsoredAccount", p.accountId)>>]]>>
    [] t = "create_post" ->
         <<[verb |-> "create", resourcePath |-> "/posts",
            entity |-> [author |-> buildUrn("organization", p.organizationId),
                        commentary |-> p.text, visibility |-> "PUBLIC",
                        feedDistribution |-> IF p.isDarkPost THEN "NONE" ELSE "MAIN_FEED",
                        lifecycleState |-> "PUBLISHED"]]>>
    [] t = "list_posts" ->
         <<[verb |-> "finder", resourcePath |-> "/posts", finderName |-> "author",
            queryParams |-> [author |-> buildUrn("organization", p.organizationId),
                             count |-> IF p.count = Undefined THEN Num(10) ELSE p.count,
                             start |-> IF p.start = Undefined THEN Num(0) ELSE p.start,
                             sortBy |-> "LAST_MODIFIED"]]>>

\* LinkedInOrganizationResponseSchema.safeParse(response).success, for the
\* field the responses vary: localizedName is z.string().optional().
OrganizationResponseValid(value) ==
  value.localizedName.cls \in {"string", "undefined"}

\* validated.localizedName ?? validated.name ?? ''
OrganizationName(value) ==
  IF value.localizedName.cls = "string" THEN value.localizedName.str ELSE ""

ResultMessage(t) ==
  CASE t = "update_campaign" -> "Campaign updated successfully"
    [] t = "update_campaign_group" -> "Campaign group updated successfully"
    [] t = "update_creative" -> "Creative updated successfully"
    [] t = "create_campaign" -> "Campaign created successfully"
    [] t = "create_creative" -> "Creative created successfully"

\* formatCampaign, formatCampaignGroup, formatCreative: the fields the
\* entities of the model carry.
FormatEntity(raw) ==
  [id |-> extractIdFromUrn(raw.id), name |-> raw.name, status |-> raw.status]

\* LinkedInPostResponseSchema.safeParse(raw).success: id is z.string().
PostResponseValid(raw) == raw.id # NoUrn

\* formatPost(raw) of a valid post
formatPost(raw) ==
  [id |-> extractIdFromUrn(raw.id), urn |-> raw.id, text |-> raw.commentary]

\* response.id ?? response['x-restli-id']
PostIdOf(created) ==
  IF created["id"] # NoUrn THEN created["id"] ELSE created["x-restli-id"]

\* What the handler does with the value of its last verb: the handler
\* after its return or its throw.
Finish(h, value) ==
  CASE h.tool = "get_organization" ->
         IF OrganizationResponseValid(value)
         THEN [h EXCEPT !.pc = "resolved", !.fetched = value,
                        !.result = [id |-> h.input.organizationId,
                                    name |-> OrganizationName(value)]]
         ELSE [h EXCEPT !.pc = "rejected", !.fetched = value, !.origin = "response",
                        !.error = ValidationError("Invalid organization response",
                                                  "organizationResponse", NoData, <<0, 5>>)]
    [] h.tool = "search_targeting_entities" ->
         [h EXCEPT !.pc = "resolved", !.fetched = value,
                   !.result = [entities |-> value.elements, facet |-> h.input.facet,
                               count |-> Len(value.elements)]]
    [] h.tool = "get_analytics" ->
         [h EXCEPT !.pc = "resolved", !.fetched = value,
                   !.result = [analytics |-> value.elements,
                               dateRange |-> [start |-> h.input.startDate,
                                              end |-> h.input.endDate]]]
    [] h.tool = "create_post" ->
         [h EXCEPT !.pc = "resolved", !.fetched = value,
                   !.result = [success |-> TRUE,
                               message |-> IF h.input.isDarkPost
                                           THEN "Dark post created successfully (not visible on company page)"
                                           ELSE "Post published successfully to company page",
                               postUrn |-> PostIdOf(value),
                               author |-> buildUrn("organization", h.input.organizationId)]]
    [] h.tool = "list_posts" ->
         IF "elements" \notin DOMAIN value
         THEN [h EXCEPT !.pc = "rejected", !.fetched = value, !.origin = "response",
                        !.error = TypeError]
         ELSE IF \E i \in DOMAIN value.elements : ~PostResponseValid(value.elements[i])
         THEN [h EXCEPT !.pc = "rejected", !.fetched = value, !.origin = "response",
                        !.error = ValidationError("Invalid post response from LinkedIn API",
                                                  "postResponse", NoData, <<0, 5>>)]
         ELSE [h EXCEPT !.pc = "resolved", !.fetched = value,
                        !.result = [posts |-> [i \in DOMAIN value.elements |->
                                                 formatPost(value.elements[i])],
                                    count |-> Len(value.elements),
                                    organizationId |-> h.input.organizationId]]
    [] h.tool = "delete_campaign" ->
         [h EXCEPT !.pc = "resolved", !.fetched = value,
                   !.result = [message |-> "Campaign archived successfully",
                               campaignId |-> h.input.campaignId]]
    [] OTHER ->
         IF value = UndefinedValue \/ value.id = NoUrn
         THEN [h EXCEPT !.pc = "rejected", !.fetched = value, !.origin = "response",
                        !.error = TypeError]
         ELSE [h EXCEPT !.pc = "resolved", !.fetched = value,
                        !.result = [message |-> ResultMessage(h.tool),
                                    entity |-> FormatEntity(value)]]

\* The handler of tool t is called with input p: the schema is parsed, the
\* handler's own rule is applied, and the first client verb is called.
Invoke(t, p) ==
  /\ handler.pc = "idle"
  /\ handler' =
       IF ~SchemaAccepts(t, p)
       THEN [handler EXCEPT !.pc = "rejected", !.tool = t, !.input = p,
                            !.error = ZodError, !.origin = "schema"]
       ELSE IF RuleError(t, p) # Null
       THEN [handler EXCEPT !.pc = "rejected", !.tool = t, !.input = p,
                            !.error = RuleError(t, p), !.origin = "rule"]
       ELSE [handler EXCEPT !.pc = "awaiting", !.tool = t, !.input = p,
                            !.calls = <<VerbCalls(t, p)[1]>>]
  /\ UNCHANGED <<classifierVars, callVars, client, wireVars, server>>

\* The client verb the handler awaits resolves with value: the handler
\* calls its next verb, or finishes.
VerbResolves(value) ==
  /\ handler.pc = "awaiting"
  /\ value \in VerbValues(handler.calls[Len(handler.calls)])
  /\ LET plan == VerbCalls(handler.tool, handler.input)
         made == Len(handler.calls)
         call == handler.calls[made]
         settledNow ==
           [handler EXCEPT !.settled = Append(@, "resolved"),
                           !.mutations = IF call.verb \in MutatingVerbs
                                         THEN Append(@, call) ELSE @]
     IN handler' =
          IF made < Len(plan)
          THEN [settledNow EXCEPT !.calls = Append(@, plan[made + 1])]
          ELSE Finish(settledNow, value)
  /\ UNCHANGED <<classifierVars, callVars, client, wireVars, server>>

\* Propagate with a catch block that reports what was done so far.
PropagateSwallowed(h, err) ==
  [h EXCEPT !.pc = "resolved", !.settled = Append(@, "rejected"),
            !.result = [message |-> "done"]]

\* An awaited verb rejects inside a handler: no handler has a try block, so
\* the handler rejects with the same error.
Propagate(h, err) ==
  [h EXCEPT !.pc = "rejected", !.settled = Append(@, "rejected"),
            !.error = err, !.origin = "client"]

\* The client verb the handler awaits rejects.
VerbRejects(err) ==
  /\ handler.pc = "awaiting"
  /\ handler' = Propagate(handler, err)
  /\ UNCHANGED <<classifierVars, callVars, client, wireVars, server>>

\* One tool handler is invoked, in a process of any time zone; no verb
\* call is modelled below it.
InitTools ==
  /\ server = ServerOff
  /\ phase = "off"
  /\ input = Null
  /\ output = Null
  /\ again = Null
  /\ CallsUnused
  /\ client = NewClient(TestConfig)
  /\ handler \in {[HandlerOff EXCEPT !.pc = "idle", !.tz = z] : z \in TimeZoneOffsets}

NextTools ==
  \/ \E t \in Tools : \E p \in ToolInputs(t) : Invoke(t, p)
  \/ \E value \in {UndefinedValue} \cup RawEntities \cup OrgResponses \cup FinderResponses
                    \cup PostCreated \cup PostLists \cup AnalyticsResponses :
       VerbResolves(value)
  \/ \E err \in VerbErrors : VerbRejects(err)

SpecTools == InitTools /\ [][NextTools]_vars

\* --------------------------------------------------------------- server

\* The environments the process is started in.
Environments ==
  [LINKEDIN_ACCESS_TOKEN : {Missing, "", "AQV123456789abcdef"},
   LINKEDIN_API_VERSION : {Missing, "202601", "202502", "2026-01"},
   LINKEDIN_COMMUNITY_TOKEN : {Missing, "community-token"}]

\* rawConfig of loadConfig
RawConfig(env) ==
  [accessToken |-> env.LINKEDIN_ACCESS_TOKEN,
   apiVersion |-> IF env.LINKEDIN_API_VERSION = Missing THEN DefaultApiVersion
                  ELSE env.LINKEDIN_API_VERSION]

\* configSchema.safeParse(rawConfig).success
ConfigValid(raw) ==
  /\ raw.accessToken # Missing
  /\ raw.accessToken # ""
  /\ raw.apiVersion \in {"202601", "202502"}   \* those /^\d{6}$/ matches

\* The tool objects of the modules, in the order of their keys.
accountTools == <<"list_ad_accounts", "get_ad_account">>

campaignTools ==
  <<"list_campaigns", "get_campaign", "create_campaign", "update_campaign",
    "delete_campaign">>

campaignGroupTools ==
  <<"list_campaign_groups", "create_campaign_group", "update_campaign_group">>

creativeTools ==
  <<"list_creatives", "get_creative", "create_creative", "update_creative",
    "delete_creative">>

analyticsTools == <<"get_analytics", "get_campaign_performance">>

targetingTools ==
  <<"list_targeting_facets", "search_targeting_entities", "estimate_audience">>

postTools == <<"create_post", "list_posts", "get_post", "update_post", "delete_post">>

organizationAnalyticsTools ==
  <<"get_share_statistics", "get_follower_statistics", "get_organization">>

\* allTools of index.ts: the spread of six tool objects.
allTools ==
  accountTools \o campaignTools \o campaignGroupTools \o creativeTools
  \o analyticsTools \o targetingTools

\* The names a client of the server can call: the tools the README lists
\* as available and one it does not list.
ToolNames ==
  LET listed == allTools \o postTools \o organizationAnalyticsTools
  IN {listed[i] : i \in DOMAIN listed} \cup {"no_such_tool"}

\* The process starts: loadConfig(), which throws on an invalid
\* configuration and ends the process.
LoadConfig ==
  /\ server.pc = "boot"
  /\ LET raw == RawConfig(server.env)
     IN server' =
          IF ConfigValid(raw)
          THEN [server EXCEPT !.pc = "configured", !.config = raw]
          ELSE [server EXCEPT !.pc = "failed",
                              !.error = NewError("Configuration error", <<0, 6>>)]
  /\ UNCHANGED <<classifierVars, callVars, client, wireVars, handler>>

\* The rest of the module body of index.ts, which runs without awaiting
\* anything: linkedInClient = createLinkedInClient(config), the FastMCP
\* server, one server.addTool({name, ..., execute: createHandler(tool.handler)})
\* per entry of allTools, every handler closing over the one linkedInClient,
\* and server.start({ transportType: 'stdio' }).
RegisterTools ==
  /\ server.pc = "configured"
  /\ LET linkedInClient == NewClient(server.config)
     IN server' =
          [server EXCEPT !.pc = "started",
                         !.linkedInClient = linkedInClient,
                         !.tools = allTools]
  /\ UNCHANGED <<classifierVars, callVars, client, wireVars, handler>>

\* A client of the server calls the tool of a name: the handler registered
\* under it is executed with linkedInClient, and a name never registered is
\* answered by the server library with its unknown-tool error.
CallTool(name) ==
  /\ server.pc = "started"
  /\ LET found == {i \in DOMAIN server.tools : server.tools[i] = name}
     IN server' =
          [server EXCEPT !.reply =
             IF found = {}
             THEN [tool |-> name, kind |-> "unknown tool"]
             ELSE [tool |-> name, kind |-> "handler executed",
                   with |-> server.linkedInClient]]
  /\ UNCHANGED <<classifierVars, callVars, client, wireVars, handler>>

\* The process is started in any environment.
InitServer ==
  /\ handler = HandlerOff
  /\ phase = "off"
  /\ input = Null
  /\ output = Null
  /\ again = Null
  /\ CallsUnused
  /\ client = NewClient(TestConfig)
  /\ server \in {[ServerOff EXCEPT !.pc = "boot", !.env = e] : e \in Environments}

NextServer ==
  \/ LoadConfig
  \/ RegisterTools
  \/ \E name \in ToolNames : CallTool(name)

SpecServer == InitServer /\ [][NextServer]_vars

\* ================================================================ claims

ApiClasses ==
  {"AuthenticationError", "PermissionError", "RateLimitError", "LinkedInApiError"}

\* Every failed attempt of call c so far was classified RateLimit.
AllRateLimit(c) == \A i \in DOMAIN log[c] : log[c][i].cls = "RateLimitError"

\* The delays call c has been given so far, in ms, summed.
RECURSIVE SumDelays(_)
SumDelays(entries) ==
  IF entries = <<>> THEN 0
  ELSE (IF Head(entries).delay.t = "number" THEN Head(entries).delay.v ELSE 0)
       + SumDelays(Tail(entries))

\* C1: with maxRetries = 3, a verb call whose every attempt fails with a
\* RateLimit failure invokes the remote operation exactly 4 times, sleeps
\* exactly 3 times (after the first three failures, not after the last) and
\* rejects with a RateLimit error; no verb call makes more than 4 attempts.
C1_RetryCeiling ==
  \A c \in Calls :
    /\ invocations[c] <= 4
    /\ Len(log[c]) <= 4
    /\ (pc[c] = "rejected" /\ AllRateLimit(c)) =>
         /\ invocations[c] = 4
         /\ Len(log[c]) = 4
         /\ \A i \in 1 .. 3 : log[c][i].delay # Undefined
         /\ log[c][4].delay = Undefined
         /\ InstanceOfRateLimitError(lastError[c])

C1_Witness ==
  \E c \in Calls :
    pc[c] = "rejected" /\ AllRateLimit(c) /\ invocations[c] = 4 /\ Len(log[c]) = 4

\* C2: an attempt (the first or a later one) that fails with anything but a
\* RateLimit failure is the last attempt: the call is rejected with that
\* classified error, no attempt follows and no delay is taken after it; such
\* a failure on the first attempt leaves exactly one attempt made.
C2_NoRetryOnOtherErrors ==
  \A c \in Calls : \A i \in DOMAIN log[c] :
    log[c][i].cls # "RateLimitError" =>
      /\ i = Len(log[c])
      /\ pc[c] = "rejected"
      /\ invocations[c] = i
      /\ log[c][i].delay = Undefined
      /\ SumDelays(log[c]) = SumDelays(SubSeq(log[c], 1, i - 1))
      /\ lastError[c].cls = log[c][i].cls
      /\ lastError[c] = transformError(caught[c], lastError[c].ref)

C2_Witness ==
  \E c \in Calls :
    /\ pc[c] = "rejected"
    /\ Len(log[c]) = 2
    /\ invocations[c] = 2
    /\ lastError[c].cls = "AuthenticationError"

\* C3: whenever a RateLimit failure carries retryAfter = N, an integer N >= 0,
\* and a retry follows, the delay before that retry is exactly N x 1000 ms.
C3_RetryAfterPrecedence ==
  \A c \in Calls : \A i \in DOMAIN log[c] :
    LET e == log[c][i]
    IN (/\ e.cls = "RateLimitError"
        /\ e.retryAfter.t = "number"
        /\ e.retryAfter.v >= 0
        /\ e.delay # Undefined) => e.delay = Num(e.retryAfter.v * 1000)

\* C4: a RateLimit failure that carries no retryAfter is followed, when a
\* retry follows, by a delay of 2^a x 1000 ms, a the number of the failed
\* attempt counted from 0: 1000, 2000 and 4000 ms; a call that exhausts its
\* budget without any hint has slept 7000 ms.
C4_ExponentialBackoff ==
  \A c \in Calls :
    /\ \A i \in DOMAIN log[c] :
         (/\ log[c][i].cls = "RateLimitError"
          /\ log[c][i].retryAfter = Undefined
          /\ log[c][i].delay # Undefined) =>
            /\ i \in 1 .. 3
            /\ log[c][i].delay = Num(<<1000, 2000, 4000>>[i])
    /\ (/\ pc[c] = "rejected"
        /\ Len(log[c]) = 4
        /\ \A i \in DOMAIN log[c] :
             log[c][i].cls = "RateLimitError" /\ log[c][i].retryAfter = Undefined) =>
          SumDelays(log[c]) = 7000

C4_Witness ==
  \E c \in Calls :
    /\ pc[c] = "rejected"
    /\ Len(log[c]) = 4
    /\ \A i \in DOMAIN log[c] :
         log[c][i].cls = "RateLimitError" /\ log[c][i].retryAfter = Undefined
    /\ SumDelays(log[c]) = 7000

\* C5: a call that resolves has had k <= 3 failed attempts, all of them
\* RateLimit failures followed by a delay, and k + 1 attempts in all; it
\* resolves with what the successful attempt returned: response.data for
\* finder, get, getAll and create, nothing for the other verbs.
C5_SuccessfulRecovery ==
  \A c \in Calls :
    pc[c] = "resolved" =>
      /\ Len(log[c]) <= 3
      /\ \A i \in DOMAIN log[c] :
           log[c][i].cls = "RateLimitError" /\ log[c][i].delay # Undefined
      /\ invocations[c] = Len(log[c]) + 1
      /\ attempt[c] = Len(log[c])
      /\ verb[c] \in {"finder", "get", "getAll", "create"} => result[c] = response[c]
      /\ verb[c] \in {"update", "partialUpdate", "delete"} => result[c] = Void

C5_Witness ==
  \E c \in Calls :
    /\ pc[c] = "resolved"
    /\ Len(log[c]) = 3
    /\ invocations[c] = 4
    /\ verb[c] = "get"
    /\ result[c] = "data B"

\* A failure as the transport raises it: an instance of none of this
\* program's error classes.
IsRaw(e) == ~InstanceOfLinkedInApiError(e) /\ ~InstanceOfValidationError(e)

\* The failure has a response descriptor with a status code in it.
ExposesStatus(e) ==
  IsRaw(e) /\ IsObject(e) /\ ResponseStatus(e).t = "number"

\* C6: a raw failure with status code s is classified Authentication for
\* s = 401, Permission for s = 403, RateLimit for s = 429 and otherwise
\* GenericApiError with statusCode s; the message of the result is the
\* message field of the response body when the body has one, and otherwise
\* the message of the failure itself (when it has one).
C6_StatusCodeMapping ==
  (phase # "input" /\ ExposesStatus(input)) =>
    LET s == input.response.status.v
        body == DataMessage(input.response.data)
    IN /\ s = 401 => output.cls = "AuthenticationError"
       /\ s = 403 => output.cls = "PermissionError"
       /\ s = 429 => output.cls = "RateLimitError"
       /\ s \notin {401, 403, 429} =>
            output.cls = "LinkedInApiError" /\ output.statusCode = Num(s)
       /\ body # Missing => output.message = body
       /\ (body = Missing /\ input.message # Missing) =>
            output.message = input.message

C6_Witness ==
  /\ phase = "classified"
  /\ ExposesStatus(input)
  /\ input.response.status = Num(404)
  /\ DataMessage(input.response.data) = Missing
  /\ input.message = "Network Error"
  /\ output.cls = "LinkedInApiError"
  /\ output.statusCode = Num(404)
  /\ output.message = "Network Error"

\* C7: classifying an instance of one of the program's error classes
\* returns the very same object: the same identity and every field as it
\* was, the retryAfter of a RateLimit error included.
C7_ClassifiedReturnedUnchanged ==
  (phase # "input" /\ ~IsRaw(input)) =>
    /\ output.ref = input.ref
    /\ output.retryAfter = input.retryAfter
    /\ output = input

C7_Witness ==
  /\ phase = "classified"
  /\ input.cls = "RateLimitError"
  /\ input.retryAfter = Num(30)
  /\ output.ref = input.ref
  /\ output.retryAfter = Num(30)

\* C8 as claimed: every failure a remote call raises is classified as one of
\* Authentication, Permission, RateLimit and GenericApiError.
C8_EveryFailureClassified ==
  \A c \in Calls :
    pc[c] \in {"sleeping", "rejected"} => lastError[c].cls \in ApiClasses

\* C8 as amended: every failure a remote call raises becomes one of
\* Authentication, Permission, RateLimit, GenericApiError or a plain Error;
\* one that carries a response descriptor, with or without a status code,
\* becomes one of the first four; an unrecognizable value (no object, or an
\* object with neither a response nor a message) becomes a plain Error
\* carrying its string representation.  No call rejects with a raw value or
\* with a Validation error.
C8_ClassifiedOrPlainError ==
  \A c \in Calls :
    pc[c] \in {"sleeping", "rejected"} =>
      /\ lastError[c].cls \in ApiClasses \cup {"Error"}
      /\ lastError[c].cls # "ValidationError"
      /\ HasResponseKey(caught[c]) => lastError[c].cls \in ApiClasses
      /\ ~isAxiosError(caught[c]) =>
           /\ lastError[c].cls = "Error"
           /\ lastError[c].message = StringOf(caught[c])
           /\ lastError[c].statusCode = Undefined

C8_Witness ==
  \E c \in Calls :
    /\ pc[c] = "rejected"
    /\ caught[c].cls = "string"
    /\ lastError[c].cls = "Error"
    /\ lastError[c].message = "string error"

\* C9: a raw failure that exposes no status code becomes a plain Error with
\* no status attached, carrying the failure's own message when it has one
\* and its string representation otherwise.
C9_NoStatusIsPlainError ==
  (phase # "input" /\ IsRaw(input) /\ ~ExposesStatus(input)) =>
    /\ output.cls = "Error"
    /\ output.statusCode = Undefined
    /\ output.message =
         IF IsObject(input) /\ input.message # Missing THEN input.message
         ELSE StringOf(input)

\* The header value is a non-empty string of digits.
IsNumeric(h) ==
  h.present /\ h.chars # <<>> /\ \A i \in DOMAIN h.chars : h.chars[i] \in Digits

\* C10: for a 429 failure retryAfter is the integer value of the retry-after
\* header when the header is present and numeric, and undefined (not NaN,
\* not 0) when the header is absent or not numeric.
C10_RetryAfterParsed ==
  (phase # "input" /\ ExposesStatus(input) /\ input.response.status = Num(429)) =>
    LET h == input.response.retryAfter
    IN IF IsNumeric(h) THEN output.retryAfter = Num(DigitsValue(h.chars, 0))
       ELSE output.retryAfter = Undefined

\* The number of events of call c whose kind is in kinds.
CountEvents(c, kinds) ==
  Cardinality({i \in DOMAIN events[c] : events[c][i][1] \in kinds})

\* The remote requests of call c that have not been answered yet.
Outstanding(c) == CountEvents(c, {"request"}) - CountEvents(c, {"ok", "fail"})

\* C11: within one verb call the attempts are strictly sequential.  At most
\* one remote request of the call is in flight, none while the call sleeps,
\* and every request but the first directly follows the wake-up of the
\* sleep that followed the failure of the attempt before it, the timer
\* having run for the delay computed for that attempt.
C11_SequentialAttempts ==
  \A c \in Calls :
    LET ev == events[c]
    IN /\ Outstanding(c) \in {0, 1}
       /\ pc[c] = "sleeping" => Outstanding(c) = 0
       /\ Outstanding(c) = 1 <=> pc[c] = "inflight"
       /\ \A i \in DOMAIN ev :
            (ev[i][1] = "request" /\ i > 1) =>
              /\ i > 3
              /\ ev[i][2] \in DOMAIN log[c]
              /\ ev[i - 3][1] = "fail"
              /\ ev[i - 2][1] = "sleep"
              /\ Num(ev[i - 2][2]) = log[c][ev[i][2]].delay
              /\ ev[i - 1][1] = "wake"
              /\ ev[i - 1][2] = ev[i - 2][2]

\* Two calls have each been retried, one is in its third attempt while the
\* other sleeps.
C11_Witness ==
  \E c, d \in Calls :
    /\ c # d
    /\ pc[c] = "inflight"
    /\ Len(requests[c]) = 3
    /\ pc[d] = "sleeping"
    /\ Len(requests[d]) = 2

\* What the environment gave call c, in order: the answers of the remote
\* calls and the wake-ups of the timers.
RemoteResults(c) ==
  SelectSeq(events[c], LAMBDA e : e[1] \in {"ok", "fail", "wake"})

\* What call c did and what came of it.
Observable(c) ==
  [pc |-> pc[c], attempt |-> attempt[c], invocations |-> invocations[c],
   requests |-> requests[c], log |-> log[c], timer |-> timer[c],
   result |-> result[c], error |-> lastError[c].cls]

\* C12: verb calls on one client share no retry state.  Every call starts at
\* attempt 0 and, failing with RateLimit every time, gets its 3 retries
\* whatever the other calls do; two calls of the same verb with the same
\* arguments that were given the same remote results have made the same
\* attempts with the same delays and have the same outcome; and while a call
\* sleeps, every other call can start, be answered and wake up.
C12_IndependentCalls ==
  \A c \in Calls :
    /\ events[c] # <<>> => events[c][1] = <<"request", 0>>
    /\ (pc[c] = "rejected" /\ AllRateLimit(c)) => invocations[c] = DefaultMaxRetries + 1
    /\ \A d \in Calls \ {c} :
         /\ (verb[c] = verb[d] /\ args[c] = args[d]
               /\ RemoteResults(c) = RemoteResults(d))
              => Observable(c) = Observable(d)
         /\ pc[c] = "sleeping" =>
              /\ pc[d] = "idle" => ENABLED Start(d, "get", PlainArgs("get"))
              /\ pc[d] = "inflight" => ENABLED AttemptSucceeds(d, "data A")
              /\ pc[d] = "sleeping" => ENABLED SleepElapses(d)

\* A call sleeps before its third attempt; another call, started with the
\* same verb, was answered at once and has resolved.
C12_Witness ==
  \E c, d \in Calls :
    /\ c < d
    /\ pc[c] = "sleeping"
    /\ attempt[c] = 1
    /\ verb[d] = verb[c]
    /\ pc[d] = "resolved"
    /\ invocations[d] = 1
    /\ events[d][1] = <<"request", 0>>

\* C13: once started, a verb call runs to completion.  If every remote call
\* is answered and every timer fires, a call that has started eventually
\* resolves or rejects with the error the classifier returned, and a call
\* that has resolved or rejected stays so.
C13_RunsToCompletion ==
  \A c \in Calls :
    /\ (pc[c] \in {"inflight", "sleeping"}) ~>
         \/ pc[c] = "resolved"
         \/ pc[c] = "rejected" /\ InstanceOfError(lastError[c])
    /\ [](pc[c] = "resolved" => [](pc[c] = "resolved"))
    /\ [](pc[c] = "rejected" => [](pc[c] = "rejected"))

\* A call has used every retry and rejected; another has resolved after a
\* retry.
C13_Witness ==
  \E c, d \in Calls :
    /\ pc[c] = "rejected"
    /\ invocations[c] = DefaultMaxRetries + 1
    /\ lastError[c].cls = "RateLimitError"
    /\ pc[d] = "resolved"
    /\ invocations[d] = 2

\* C14: the token and the version string of the client never change after
\* its construction, and every request of every verb, on every attempt,
\* carries exactly the token and the version string the client was built
\* with.
C14_CredentialsOnEveryRequest ==
  /\ [][client' = client]_vars
  /\ [](\A c \in Calls : \A i \in DOMAIN requests[c] :
          /\ requests[c][i].params.accessToken = client.accessToken
          /\ requests[c][i].params.versionString = client.apiVersion)

\* A partial update on a client built with the other token and version has
\* been sent three times.
C14_Witness ==
  \E c \in Calls :
    /\ client = NewClient([accessToken |-> "other-token", apiVersion |-> "202502"])
    /\ verb[c] = "partialUpdate"
    /\ Len(requests[c]) = 3
    /\ requests[c][3].params.versionString = "202502"
    /\ requests[c][3].params.accessToken = "other-token"

\* C15: the remote service never carrying out a request it answers with
\* 429, one create, update, partialUpdate or delete call has its mutation
\* carried out at most once: the request is sent again only after an
\* attempt that failed with RateLimit, never after a success or a failure
\* of another class, and it is the same request every time.
C15_MutationAtMostOnce ==
  \A c \in Calls :
    verb[c] \in MutatingVerbs =>
      /\ applied[c] <= 1
      /\ \A i \in DOMAIN requests[c] :
           /\ requests[c][i] = requests[c][1]
           /\ i > 1 => /\ i - 1 \in DOMAIN log[c]
                       /\ log[c][i - 1].cls = "RateLimitError"
      /\ pc[c] = "resolved" => Len(requests[c]) = Len(log[c]) + 1
      /\ pc[c] = "rejected" => Len(requests[c]) = Len(log[c])

\* A create was rate-limited twice and then carried out, once.
C15_Witness ==
  \E c \in Calls :
    /\ verb[c] = "create"
    /\ pc[c] = "resolved"
    /\ Len(requests[c]) = 3
    /\ applied[c] = 1

\* C16: every verb calls the remote method of its own name; get, update,
\* partialUpdate and delete address resourcePath + "/" + id; finder, getAll
\* and create address resourcePath unchanged; and finder sends the caller's
\* query parameters, or an empty map when the caller gave none.
C16_RequestTargets ==
  \A c \in Calls : \A i \in DOMAIN requests[c] :
    LET req == requests[c][i]
        a == args[c]
    IN /\ req.method = verb[c]
       /\ verb[c] \in {"get", "update", "partialUpdate", "delete"} =>
            req.params.resourcePath = a.resourcePath \o "/" \o a.id
       /\ verb[c] \in {"finder", "getAll", "create"} =>
            req.params.resourcePath = a.resourcePath
       /\ verb[c] = "finder" =>
            /\ req.params.finderName = a.finderName
            /\ a.queryParams = UndefinedValue => req.params.queryParams = EmptyMap
            /\ a.queryParams # UndefinedValue => req.params.queryParams = a.queryParams

\* An update of /adAccounts with id 456 has been sent.
C16_Witness ==
  \E c \in Calls :
    /\ verb[c] = "update"
    /\ args[c].resourcePath = "/adAccounts"
    /\ args[c].id = "456"
    /\ Len(requests[c]) >= 1
    /\ requests[c][1].params.resourcePath = "/adAccounts/456"

\* C17: partialUpdate hands the caller's patch set to the remote client under
\* the parameter name patchSetObject, with the path resourcePath/id, the
\* token and the version.
C17_PatchSetObject ==
  \A c \in Calls : \A i \in DOMAIN requests[c] :
    verb[c] = "partialUpdate" =>
      LET p == requests[c][i].params
      IN /\ DOMAIN p = {"resourcePath", "patchSetObject", "accessToken", "versionString"}
         /\ p.patchSetObject = args[c].patchSet
         /\ p.resourcePath = args[c].resourcePath \o "/" \o args[c].id
         /\ p.accessToken = client.accessToken
         /\ p.versionString = client.apiVersion

\* C18: every error a tool handler raises from its own logic (its input
\* failing the schema, its business rule failing, the remote response
\* being malformed) is a ValidationError.
C18_OwnErrorsAreValidation ==
  handler.pc = "rejected" /\ handler.origin \in {"schema", "rule", "response"}
    => InstanceOfValidationError(handler.error)

\* C19: whenever a tool handler is given an input its own validation
\* rejects (a required identifier missing, a value outside its enum, a
\* number outside its range, a malformed URL, an empty name, a TEXT_AD
\* creative without a title), the handler rejects without having called any
\* client verb.
C19_RejectsBeforeAnyCall ==
  LET t == handler.tool
      p == handler.input
      invalid ==
        CASE t = "create_creative" ->
               \/ p.accountId = Missing
               \/ p.type = "BANNER"
               \/ p.destinationUrl = "not-a-url"
               \/ p.type = "TEXT_AD" /\ p.title \in {Missing, " "}
          [] t = "search_targeting_entities" ->
               p.facet = "unknown" \/ p.limit = Num(0)
          [] t = "create_campaign" ->
               \/ p.name = ""
               \/ p.objectiveType = "INVALID_TYPE"
               \/ p.dailyBudget = Num(-50)
          [] t = "update_campaign" ->
               \/ p.campaignId = Missing
               \/ p.status = "DELETED"
               \/ p.dailyBudget = Num(-1)
          [] t = "update_campaign_group" ->
               p.groupId = Missing \/ p.totalBudget = Num(0)
          [] t = "update_creative" ->
               \/ p.accountId = Missing
               \/ p.status = "ARCHIVED"
               \/ p.destinationUrl = "not-a-url"
          [] t = "get_organization" -> p.organizationId = Missing
          [] OTHER -> FALSE
  IN invalid =>
       /\ handler.pc = "rejected"
       /\ handler.origin \in {"schema", "rule"}
       /\ handler.calls = <<>>

\* A TEXT_AD creative whose title is blank and whose other fields are
\* valid was rejected by the handler's rule with no verb called.
C19_Witness ==
  /\ handler.tool = "create_creative"
  /\ handler.pc = "rejected"
  /\ handler.origin = "rule"
  /\ handler.input.title = " "
  /\ handler.calls = <<>>

\* C20: update_campaign, update_campaign_group and update_creative call
\* partialUpdate first, on the collection and the identifier of their input;
\* they call get second, on the same target, and only once the partial
\* update has resolved; they call nothing else; and the entity of their
\* result is the one the get returned.
C20_UpdateThenFetch ==
  LET h == handler
      collection ==
        CASE h.tool = "update_campaign" -> "/adAccounts/456/adCampaigns"
          [] h.tool = "update_campaign_group" -> "/adAccounts/456/adCampaignGroups"
          [] h.tool = "update_creative" -> "/adAccounts/789/creatives"
      id ==
        CASE h.tool = "update_campaign" -> h.input.campaignId
          [] h.tool = "update_campaign_group" -> h.input.groupId
          [] h.tool = "update_creative" -> h.input.creativeId
  IN h.tool \in UpdateTools =>
       /\ Len(h.calls) <= 2
       /\ Len(h.calls) >= 1 =>
            /\ h.calls[1].verb = "partialUpdate"
            /\ h.calls[1].resourcePath = collection
            /\ h.calls[1].id = id
       /\ Len(h.calls) = 2 =>
            /\ h.settled[1] = "resolved"
            /\ h.calls[2] = [verb |-> "get", resourcePath |-> collection, id |-> id]
       /\ h.pc = "resolved" =>
            /\ h.settled = <<"resolved", "resolved">>
            /\ h.result.entity.id = "123"
            /\ h.result.entity.name = h.fetched.name
            /\ h.result.entity.status = h.fetched.status

\* update_campaign, given no new name, has resolved after both verbs with
\* the entity the get returned.
C20_Witness ==
  /\ handler.tool = "update_campaign"
  /\ handler.pc = "resolved"
  /\ handler.input.name = Missing
  /\ Len(handler.calls) = 2
  /\ handler.fetched.name = "Updated Name"
  /\ handler.result.entity.name = "Updated Name"

\* C26: a standard Error that is none of the program's classes is returned
\* by the classifier as the same object, and classifying the classifier's
\* own output returns that output as the same object, also when the output
\* is the plain Error an unrecognizable value was wrapped in.
C26_ClassifyIdempotent ==
  /\ (phase # "input" /\ IsObject(input) /\ input.cls = "Error") => output = input
  /\ phase = "again" => again = output

\* C29: the exponential delay is computed from the number of the failed
\* attempt, whatever delays came before: a RateLimit failure without
\* retryAfter on attempt a, retried after an earlier attempt of the call was
\* retried on a retry-after hint, is still followed by 2^a x 1000 ms (2000
\* ms on attempt 1 after a hint on attempt 0), and the hinted delays before
\* it were the hints themselves.
C29_DelayFromAttemptIndex ==
  \A c \in Calls : \A i \in DOMAIN log[c] :
    LET hinted == {j \in 1 .. i - 1 : log[c][j].retryAfter # Undefined
                                        /\ log[c][j].retryAfter.t = "number"
                                        /\ log[c][j].retryAfter.v > 0}
    IN (/\ log[c][i].cls = "RateLimitError"
        /\ log[c][i].retryAfter = Undefined
        /\ log[c][i].delay # Undefined
        /\ hinted # {}) =>
          /\ log[c][i].delay = Num((2 ^ (i - 1)) * 1000)
          /\ i = 2 => log[c][i].delay = Num(2000)
          /\ \A j \in hinted : log[c][j].delay = Num(log[c][j].retryAfter.v * 1000)

\* A call whose attempt 0 was retried on a hint of 3 s, whose attempt 1 was
\* retried after 2000 ms and whose attempt 2 was retried after 4000 ms.
C29_Witness ==
  \E c \in Calls :
    /\ Len(log[c]) >= 3
    /\ log[c][1].retryAfter = Num(3)
    /\ log[c][1].delay = Num(3000)
    /\ log[c][2].retryAfter = Undefined
    /\ log[c][2].delay = Num(2000)
    /\ log[c][3].retryAfter = Undefined
    /\ log[c][3].delay = Num(4000)

\* C21: delete_campaign never calls the delete verb: it calls one partial
\* update, of the campaign of its input under /adAccounts/{accountId}/
\* adCampaigns, whose patch set is status ARCHIVED, and it returns 'Campaign
\* archived successfully' only once that update has resolved.
C21_ArchiveNotDelete ==
  handler.tool = "delete_campaign" =>
    /\ \A i \in DOMAIN handler.calls : handler.calls[i].verb # "delete"
    /\ Len(handler.calls) <= 1
    /\ handler.pc \in {"awaiting", "resolved"} =>
         handler.calls =
           <<[verb |-> "partialUpdate", resourcePath |-> "/adAccounts/456/adCampaigns",
              id |-> handler.input.campaignId, patchSet |-> [status |-> "ARCHIVED"]]>>
    /\ handler.pc = "resolved" =>
         /\ handler.settled = <<"resolved">>
         /\ handler.result.message = "Campaign archived successfully"
         /\ handler.result.campaignId = handler.input.campaignId
    /\ handler.pc = "rejected" => handler.result = NoValue

\* delete_campaign has archived campaign 123 and reported it.
C21_Witness ==
  /\ handler.tool = "delete_campaign"
  /\ handler.pc = "resolved"
  /\ handler.input.campaignId = "123"
  /\ handler.mutations # <<>>
  /\ handler.result.message = "Campaign archived successfully"

\* C27: update_creative puts every optional field it is given into the
\* patch set of its partial update: a status, a text and a destinationUrl
\* given by the caller each appear there, so that 'Creative updated
\* successfully' is never returned with a given field left out.
C27_EveryFieldApplied ==
  (handler.tool = "update_creative" /\ handler.calls # <<>>) =>
    LET p == handler.input
        patchSet == handler.calls[1].patchSet
        values == {patchSet[k] : k \in DOMAIN patchSet}
    IN /\ p.status # Missing => p.status \in values
       /\ p.destinationUrl # Missing => p.destinationUrl \in values
       /\ p.text # Missing => p.text \in values

\* C28: when an update handler's partial update has resolved and its fetch
\* has rejected, the handler rejects with the error of the fetch; it has
\* called nothing after the fetch (no rollback, no second attempt), and the
\* partial update stands as the one mutation applied.
C28_FetchFailureAfterUpdate ==
  (handler.tool \in UpdateTools /\ handler.settled = <<"resolved", "rejected">>) =>
    /\ handler.pc = "rejected"
    /\ handler.origin = "client"
    /\ handler.error \in VerbErrors
    /\ Len(handler.calls) = 2
    /\ handler.calls[1].verb = "partialUpdate"
    /\ handler.calls[2].verb = "get"
    /\ handler.mutations = <<handler.calls[1]>>
    /\ handler.result = NoValue

\* update_campaign was rejected with the rate-limit error of its fetch, the
\* new name having been applied.
C28_Witness ==
  /\ handler.tool = "update_campaign"
  /\ handler.pc = "rejected"
  /\ handler.settled = <<"resolved", "rejected">>
  /\ handler.error.cls = "RateLimitError"
  /\ Len(handler.mutations) = 1
  /\ handler.input.name = "Updated Name"
  /\ handler.mutations[1].patchSet.name = "Updated Name"

\* C22: when the response of the remote create carries no post identifier,
\* create_post rejects with 'LinkedIn API did not return a post URN'; it
\* never returns success without a post URN.
C22_NoPostUrnRejected ==
  handler.tool = "create_post" =>
    /\ (handler.settled = <<"resolved">> /\ \A k \in DOMAIN handler.fetched :
                                              handler.fetched[k] = NoUrn) =>
         /\ handler.pc = "rejected"
         /\ handler.error.message = "LinkedIn API did not return a post URN"
    /\ handler.pc = "resolved" => handler.result.postUrn # NoUrn

\* C23: when the response of the remote finder has no elements field,
\* list_posts returns an empty list of posts and the count 0, and does not
\* reject.
C23_MissingElementsIsEmptyList ==
  (/\ handler.tool = "list_posts"
   /\ handler.settled = <<"resolved">>
   /\ "elements" \notin DOMAIN handler.fetched) =>
    /\ handler.pc = "resolved"
    /\ handler.result.posts = <<>>
    /\ handler.result.count = 0

\* C30: the dateRange get_analytics sends has the day, the month and the
\* year of the caller's startDate and endDate, in every time zone the
\* process runs in.
C30_DateRangeIsCallersDate ==
  (handler.tool = "get_analytics" /\ handler.calls # <<>>) =>
    /\ handler.calls[1].queryParams.dateRange.start = handler.input.startDate
    /\ handler.calls[1].queryParams.dateRange.end = handler.input.endDate

\* C24: in a process started without LINKEDIN_COMMUNITY_TOKEN, a call of
\* get_share_statistics, get_follower_statistics or get_organization is
\* answered with an error that explains the setup the tools require.
C24_SetupErrorWithoutCommunityToken ==
  (/\ server.pc = "started"
   /\ server.env.LINKEDIN_COMMUNITY_TOKEN = Missing
   /\ server.reply # NoValue
   /\ server.reply.tool \in {"get_share_statistics", "get_follower_statistics",
                             "get_organization"}) =>
    server.reply.kind = "setup required"

\* C25: once the server has started, every tool of the README's list, the
\* five post tools and the three organization analytics tools included, is
\* registered under its name exactly once, bound to the client built from
\* the loaded configuration.
C25_EveryReadmeToolRegistered ==
  server.pc = "started" =>
    \A name \in {"list_ad_accounts", "get_ad_account", "list_campaigns", "get_campaign",
                 "create_campaign", "update_campaign", "delete_campaign",
                 "list_campaign_groups", "create_campaign_group",
                 "update_campaign_group", "list_creatives", "get_creative",
                 "create_creative", "update_creative", "delete_creative",
                 "get_analytics", "get_campaign_performance", "list_targeting_facets",
                 "search_targeting_entities", "estimate_audience", "create_post",
                 "list_posts", "get_post", "update_post", "delete_post",
                 "get_share_statistics", "get_follower_statistics",
                 "get_organization"} :
      /\ Cardinality({i \in DOMAIN server.tools : server.tools[i] = name}) = 1
      /\ server.linkedInClient =
           [accessToken |-> server.env.LINKEDIN_ACCESS_TOKEN,
            apiVersion |-> IF server.env.LINKEDIN_API_VERSION = Missing
                           THEN "202601" ELSE server.env.LINKEDIN_API_VERSION]

====
